---- MODULE Spec2Model ----
(***************************************************************************)
(* Model of src/C/regdom.c: the decoder of the compact rule encoding       *)
(* (readTldString / loadTldTree), the child search (findTldNode), the      *)
(* backward label walk (getRegisteredDomainDropI and its two public        *)
(* wrappers) and the disposal of the tree (freeTldTreeI / freeTldTree).    *)
(*                                                                         *)
(* C strings are sequences of one-character strings.  A C offset i into a  *)
(* string s is the TLA+ index i + 1; offset Len(s) holds the terminating   *)
(* NUL.  A tree pointer is the path (sequence of child indexes, 1-based)   *)
(* from the root to the node.                                              *)
(***************************************************************************)
EXTENDS Integers, Sequences, FiniteSets, Bags, TLC

VARIABLES
    tldString,      \* the encoded rule text (tld-canon.h), input of the decoder
    tree,           \* void *tree: NULL or the root tldnode built by loadTldTree
    heap,           \* live malloc()ed blocks of the tree
    released,       \* bag of blocks handed to free()
    pc,             \* position of the running call
    hostname,       \* const char *hostname of the running resolver call
    drop_unknown,   \* int drop_unknown of the running resolver call
    cursor,         \* tldnode *tree inside getRegisteredDomainDropI (a path)
    seg_start,      \* const char *seg_start, as an offset from hostname
    seg_end,        \* const char *seg_end, as an offset from hostname
    subtree,        \* result of the last findTldNode: the index of the child
                    \* of cursor it returned (1-based), 0 for a null result
    ret,            \* returned value: an offset into hostname, or NOMATCH
    reads,          \* offsets of hostname the running call has read
    treeReads,      \* number of times the running call has read the tree
    endpos,         \* position returned by the last readTldString
    api,            \* the public function called last
    root            \* the argument of the last freeTldTree: NULL or "tree"

vars == <<tldString, tree, heap, released, pc, hostname, drop_unknown, cursor,
          seg_start, seg_end, subtree, ret, reads, treeReads, endpos, api, root>>

----------------------------------------------------------------------------
(* Values *)

NULL == "NULL"          \* the null pointer / the zero left by memset
NOMATCH == -1           \* return 0: the null char * (offsets are 0 and up)
THIS == "THIS"          \* static const char THIS[] = "!"
ALL  == <<"*">>         \* static const char ALL[] = "*"
NUL  == "NUL"           \* the '\0' that ends a C string
NODOM == <<NUL>>        \* node->dom still NULL (no C string holds a NUL)

\* size_t m, n wrap modulo 2^64 (2^32 on a 32-bit build).  TLC's integers are
\* 32 bits wide, so the model wraps at 2^30: as in the code, a negative
\* pointer difference becomes a length far above that of any string.
SizeMax == 1073741824

MaxHostLen == 6         \* longest host name the resolver is called with
MaxLabelLen == 2        \* longest label run the decoder is given on its own
MaxChildren == 3        \* most children of a parent given to findTldNode

\* All sequences over S of length lo..hi.
SeqsOf(S, lo, hi) == UNION { [1..n -> S] : n \in lo..hi }

\* s[i] in C: the character at offset i, the NUL at offset Len(s).  A read
\* outside the string has no defined value: the frame that made it is marked
\* undefined (see Defined below), whatever this returns.
CharAt(s, i) ==
    IF i = Len(s) THEN NUL
    ELSE IF i >= 0 /\ i < Len(s) THEN s[i + 1] ELSE "OOB"

\* memcpy(dst, s + from, n) followed by dst[n] = 0.
CopyOf(s, from, n) == [k \in 1..n |-> s[from + k]]

----------------------------------------------------------------------------
(* readTldString *)

Digits == <<"0", "1", "2", "3", "4", "5", "6", "7", "8", "9">>

DigitVal(c) == (CHOOSE k \in 1..10 : Digits[k] = c) - 1

IsDigit(c) == \E k \in 1..10 : Digits[k] = c

\* atoi(buf): the value of the leading run of decimal digits.
RECURSIVE atoiFrom(_, _, _)
atoiFrom(buf, k, acc) ==
    IF k > Len(buf) \/ ~IsDigit(buf[k]) THEN acc
    ELSE atoiFrom(buf, k + 1, acc * 10 + DigitVal(buf[k]))

atoi(buf) == atoiFrom(buf, 1, 0)

\* The node after memset(node, 0, sizeof(tldnode)).
ZeroNode == [dom |-> NODOM, attr |-> NULL, num_children |-> 0, subnodes |-> <<>>]

\* int lenc = node->attr == THIS ? pos - start - 1 : pos - start;
LabelLen(attr, start, pos) == IF attr = THIS THEN pos - start - 1 ELSE pos - start

\* node->dom = malloc(lenc + 1); memcpy(node->dom, s + start, lenc);
StoredLabel(s, start, lenc) == CopyOf(s, start, lenc)

RECURSIVE readTldString(_, _, _)
RECURSIVE readGeneral(_, _, _, _, _)
RECURSIVE readCount(_, _, _, _, _)
RECURSIVE readChildren(_, _, _, _, _)

\* case 0 of the do/while loop, entered with c = s[pos].
readGeneral(node, s, len, start, pos) ==
    LET c == CharAt(s, pos) IN
    IF c \in {",", ")", "("}
    THEN LET lenc == LabelLen(node.attr, start, pos)
             named == [node EXCEPT !.dom = StoredLabel(s, start, lenc)]
         IN  IF c = "("
             THEN IF pos + 1 < len
                  THEN readCount(named, s, len, pos, pos + 1)
                  ELSE [node |-> named, pos |-> pos + 1]
             ELSE [node |-> named, pos |-> pos]
    ELSE LET marked == IF c = "!" THEN [node EXCEPT !.attr = THIS] ELSE node
         IN  IF pos + 1 < len
             THEN readGeneral(marked, s, len, start, pos + 1)
             ELSE [node |-> marked, pos |-> pos + 1]

\* case 1 of the do/while loop: the child count between '(' (at start) and ':'.
readCount(node, s, len, start, pos) ==
    IF CharAt(s, pos) = ":"
    THEN LET n    == atoi(CopyOf(s, start + 1, pos - start - 1))
             kids == readChildren(s, len, n, pos, <<>>)
         IN  [node |-> [node EXCEPT !.num_children = n, !.subnodes = kids.nodes],
              pos  |-> kids.pos + 1]
    ELSE IF pos + 1 < len
         THEN readCount(node, s, len, start, pos + 1)
         ELSE [node |-> node, pos |-> pos + 1]

\* for (i = 0; i < num_children; i++) pos = readTldString(subnodes[i], s, len, pos + 1);
readChildren(s, len, n, pos, acc) ==
    IF Len(acc) = n THEN [nodes |-> acc, pos |-> pos]
    ELSE LET r == readTldString(s, len, pos + 1)
         IN  readChildren(s, len, n, r.pos, Append(acc, r.node))

\* int start = pos; int state = 0; memset(node, 0, sizeof(tldnode)); do { ... }
readTldString(s, len, pos) == readGeneral(ZeroNode, s, len, pos, pos)

\* tldnode *root = malloc(sizeof(tldnode)); readTldString(root, tldString, ...)
loadTldTreeRoot(s) == readTldString(s, Len(s), 0).node

----------------------------------------------------------------------------
(* The tree as a heap of blocks *)

\* The node a path points to.
RECURSIVE NodeAt(_, _)
NodeAt(node, path) ==
    IF path = <<>> THEN node
    ELSE NodeAt(node.subnodes[Head(path)], Tail(path))

\* The paths of all nodes below and including the node at path.
RECURSIVE PathsFrom(_, _)
PathsFrom(node, path) ==
    {path} \cup UNION { PathsFrom(node.subnodes[i], Append(path, i)) :
                          i \in 1..node.num_children }

\* The blocks malloc()ed for one node: the node itself (lines 101, 120), its
\* label (line 68) and its child array (lines 96-97).
BlocksOf(node, path) ==
    {<<path, "node">>}
    \cup (IF node.dom = NODOM THEN {} ELSE {<<path, "dom">>})
    \cup (IF node.num_children = 0 THEN {} ELSE {<<path, "subnodes">>})

AllBlocks(t) == UNION { BlocksOf(NodeAt(t, p), p) : p \in PathsFrom(t, <<>>) }

\* freeTldTreeI: the bag of blocks passed to free(), children first.
RECURSIVE freeTldTreeI(_, _)
freeTldTreeI(node, path) ==
    LET RECURSIVE kids(_)
        kids(i) == IF i > node.num_children THEN EmptyBag
                   ELSE freeTldTreeI(node.subnodes[i], Append(path, i)) (+) kids(i + 1)
    IN  kids(1) (+) SetToBag(BlocksOf(node, path))

----------------------------------------------------------------------------
(* findTldNode *)

\* size_t m = seg_end - seg_start: the pointer difference converted to size_t.
SegLen(ss, se) == (se - ss) % SizeMax

\* !strcmp(parent->subnodes[i]->dom, ALL)
IsAll(child) == child.dom = ALL

\* m == n && !memcmp(parent->subnodes[i]->dom, seg_start, n)
SameLabel(child, h, ss, se) ==
    LET m == SegLen(ss, se)
        n == Len(child.dom)
    IN  m = n /\ CopyOf(h, ss, n) = child.dom

\* The for loop of findTldNode from child i on (1-based), allNode being the
\* index of the wildcard child kept so far (0: none).  The result is the
\* index of the child returned, 0 for a null result.
RECURSIVE findFrom(_, _, _, _, _, _)
findFrom(parent, h, ss, se, i, allNode) ==
    IF i > parent.num_children THEN allNode
    ELSE IF allNode = 0 /\ IsAll(parent.subnodes[i])
         THEN findFrom(parent, h, ss, se, i + 1, i)
         ELSE IF SameLabel(parent.subnodes[i], h, ss, se)
              THEN i
              ELSE findFrom(parent, h, ss, se, i + 1, allNode)

\* A findTldNode that returns the first child that is either the wildcard or
\* the exact label, in child order.
RECURSIVE findFirstHit(_, _, _, _, _)
findFirstHit(parent, h, ss, se, i) ==
    IF i > parent.num_children THEN 0
    ELSE IF IsAll(parent.subnodes[i]) \/ SameLabel(parent.subnodes[i], h, ss, se)
         THEN i
         ELSE findFirstHit(parent, h, ss, se, i + 1)

findTldNode_FirstHit(parent, h, ss, se) == findFirstHit(parent, h, ss, se, 1)

findTldNode(parent, h, ss, se) == findFrom(parent, h, ss, se, 1, 0)

----------------------------------------------------------------------------
(* getRegisteredDomainDropI, as steps over the frame of the call *)

\* An entry check that forgets the empty name.
AlwaysFail_DotOnly(h) == CharAt(h, 0) = "."

\* if (hostname[0] == '.' || hostname[0] == '\0') return 0;
AlwaysFail(h) == CharAt(h, 0) = "." \/ CharAt(h, 0) = NUL

\* if (seg_end[-1] == '.') seg_end--;
TrimmedEnd(h) == IF CharAt(h, Len(h) - 1) = "." THEN Len(h) - 1 ELSE Len(h)

\* while (seg_start > head && *seg_start != '.') seg_start--;
RECURSIVE ScanBack(_, _)
ScanBack(h, ss) ==
    IF ss > 0 /\ CharAt(h, ss) # "." THEN ScanBack(h, ss - 1) ELSE ss

\* A scan that stays on the dot it stopped at.
LabelStart_OnDot(h, ss) == ScanBack(h, ss)

\* ... followed by: if (*seg_start == '.') seg_start++;
LabelStart(h, ss) ==
    LET p == ScanBack(h, ss) IN IF CharAt(h, p) = "." THEN p + 1 ELSE p

\* A boundary test that looks at the flag of the node instead of its child's.
IsExceptionBoundary_OwnFlag(node) ==
    node.num_children = 1 /\ node.attr = THIS

\* subtree->num_children == 1 && subtree->subnodes[0]->attr == THIS
IsExceptionBoundary(node) ==
    node.num_children = 1 /\ node.subnodes[1].attr = THIS

\* strchr(seg_start, '.') != NULL
HasDotFrom(h, ss) == \E i \in ss..(Len(h) - 1) : CharAt(h, i) = "."

\* Lines 197-209: the frame on entry to the for loop, or the early return.
EnterFrame(h, d) ==
    IF AlwaysFail(h)
    THEN [pc |-> "done", hostname |-> h, drop_unknown |-> d, cursor |-> <<>>,
          seg_start |-> 0, seg_end |-> 0, subtree |-> 0, ret |-> NOMATCH,
          reads |-> {0}, treeReads |-> 0]
    ELSE [pc |-> "scan", hostname |-> h, drop_unknown |-> d, cursor |-> <<>>,
          seg_start |-> TrimmedEnd(h), seg_end |-> TrimmedEnd(h),
          subtree |-> 0, ret |-> NOMATCH,
          reads |-> (0..Len(h)) \cup {Len(h) - 1}, treeReads |-> 0]

\* A frame that has read outside hostname[0..strlen] has no defined behaviour.
Defined(f) ==
    IF f.reads \subseteq 0..Len(f.hostname) THEN f ELSE [f EXCEPT !.pc = "undefined"]

\* A pass of the loop that forgets tree = subtree: the next label is looked up
\* in the same node again.
LoopFrame_KeepsCursor(f, t) ==
    LET h     == f.hostname
        ss    == LabelStart(h, f.seg_start)
        node  == NodeAt(t, f.cursor)
        k     == findTldNode(node, h, ss, f.seg_end)
        seen  == f.reads \cup (ScanBack(h, f.seg_start)..f.seg_start)
        g     == [f EXCEPT !.seg_start = ss, !.subtree = k, !.reads = seen,
                           !.treeReads = f.treeReads + 1]
    IN  IF k = 0 \/ IsExceptionBoundary(node.subnodes[k])
        THEN [g EXCEPT !.pc = "check"]
        ELSE IF ss = 0
             THEN [g EXCEPT !.pc = "done", !.ret = NOMATCH]
             ELSE IF CharAt(h, ss - 1) # "."
                  THEN [g EXCEPT !.pc = "abort", !.reads = seen \cup {ss - 1}]
                  ELSE [g EXCEPT !.pc = "scan",
                                 !.seg_end = ss - 1, !.seg_start = ss - 2,
                                 !.reads = seen \cup {ss - 1}]

\* Lines 211-236: one pass of the for loop.
LoopFrame(f, t) ==
    LET h     == f.hostname
        ss    == LabelStart(h, f.seg_start)
        node  == NodeAt(t, f.cursor)
        k     == findTldNode(node, h, ss, f.seg_end)
        sub   == Append(f.cursor, k)
        seen  == f.reads \cup (ScanBack(h, f.seg_start)..f.seg_start)
        g     == [f EXCEPT !.seg_start = ss, !.subtree = k, !.reads = seen,
                           !.treeReads = f.treeReads + 1]
    IN  IF k = 0 \/ IsExceptionBoundary(node.subnodes[k])
        THEN [g EXCEPT !.pc = "check"]
        ELSE IF ss = 0
             THEN [g EXCEPT !.pc = "done", !.ret = NOMATCH]
             ELSE IF CharAt(h, ss - 1) # "."
                  THEN [g EXCEPT !.pc = "abort", !.cursor = sub,
                                 !.reads = seen \cup {ss - 1}]
                  ELSE [g EXCEPT !.pc = "scan", !.cursor = sub,
                                 !.seg_end = ss - 1, !.seg_start = ss - 2,
                                 !.reads = seen \cup {ss - 1}]

\* A two-label check that forgets drop_unknown.
CheckFrame_IgnoresDrop(f) ==
    LET h == f.hostname
        ss == f.seg_start
    IN  IF HasDotFrom(h, ss)
        THEN [f EXCEPT !.pc = "done", !.ret = ss, !.reads = @ \cup (ss..Len(h))]
        ELSE IF ss = 0
             THEN [f EXCEPT !.pc = "done", !.ret = NOMATCH,
                            !.reads = @ \cup (ss..Len(h))]
             ELSE LET back == LabelStart(h, ss - 2)
                  IN  [f EXCEPT !.pc = "done", !.seg_start = back, !.ret = back,
                                !.reads = @ \cup (ss..Len(h))
                                            \cup (ScanBack(h, ss - 2)..(ss - 2))]

\* Lines 239-254: the two-label check and the return.
CheckFrame(f) ==
    LET h == f.hostname
        ss == f.seg_start
    IN  IF HasDotFrom(h, ss)
        THEN [f EXCEPT !.pc = "done", !.ret = ss, !.reads = @ \cup (ss..Len(h))]
        ELSE IF ss = 0 \/ f.drop_unknown # 0
             THEN [f EXCEPT !.pc = "done", !.ret = NOMATCH,
                            !.reads = @ \cup (ss..Len(h))]
             ELSE LET back == LabelStart(h, ss - 2)
                  IN  [f EXCEPT !.pc = "done", !.seg_start = back, !.ret = back,
                                !.reads = @ \cup (ss..Len(h))
                                            \cup (ScanBack(h, ss - 2)..(ss - 2))]

\* The frame the call ends with.
RECURSIVE RunFrame(_, _)
RunFrame(f, t) ==
    IF f.pc = "scan" THEN RunFrame(Defined(LoopFrame(f, t)), t)
    ELSE IF f.pc = "check" THEN RunFrame(Defined(CheckFrame(f)), t)
    ELSE f

\* getRegisteredDomainDropI(hostname, tree, drop_unknown) run to its end.
getRegisteredDomainDropI(h, t, d) == RunFrame(Defined(EnterFrame(h, d)), t)

----------------------------------------------------------------------------
(* Inputs *)

\* The text of a node with children: label(count:child,child,...).
RECURSIVE Join(_)
Join(kids) ==
    IF Len(kids) = 0 THEN <<>>
    ELSE IF Len(kids) = 1 THEN kids[1]
    ELSE kids[1] \o <<",">> \o Join(Tail(kids))

Block(label, kids) ==
    label \o <<"(", Digits[Len(kids) + 1], ":">> \o Join(kids) \o <<")">>

\* Rule texts in the format of tld-canon.h (the data itself is not part of
\* the source): leaves, one- and two-level suffixes, wildcards, and the
\* exception form label(1:!).
LeafTexts == { <<"a">>, <<"*">>, <<"!">> }

SubTexts ==
    LeafTexts \cup { Block(l, <<c>>) : l \in { <<"a">>, <<"*">> }, c \in LeafTexts }

TopTexts ==
    SubTexts
    \cup { Block(l, <<c>>) : l \in { <<"a">>, <<"*">> }, c \in SubTexts \ LeafTexts }
    \cup { Block(<<"a">>, <<c1, c2>>) :
             c1, c2 \in { <<"*">>, <<"a">>, Block(<<"a">>, << <<"!">> >>) } }

TldStrings ==
    { Block(<<"r">>, <<c>>) : c \in TopTexts }
    \cup { Block(<<"r">>, <<c1, c2>>) :
             c1, c2 \in { <<"*">>, <<"a">>, Block(<<"a">>, << <<"a">> >>),
                          Block(<<"*">>, << <<"a">> >>),
                          Block(<<"a">>, << <<"!">> >>),
                          Block(<<"*">>, << <<"!">> >>) } }

HostChars == { "a", "b", "." }

Hostnames == SeqsOf(HostChars, 0, MaxHostLen)

DropValues == { 0, 1 }

----------------------------------------------------------------------------
(* The calls of the public interface *)

Frame ==
    [pc |-> pc, hostname |-> hostname, drop_unknown |-> drop_unknown,
     cursor |-> cursor, seg_start |-> seg_start, seg_end |-> seg_end,
     subtree |-> subtree, ret |-> ret, reads |-> reads, treeReads |-> treeReads]

SetFrame(f) ==
    /\ pc' = f.pc
    /\ hostname' = f.hostname
    /\ drop_unknown' = f.drop_unknown
    /\ cursor' = f.cursor
    /\ seg_start' = f.seg_start
    /\ seg_end' = f.seg_end
    /\ subtree' = f.subtree
    /\ ret' = f.ret
    /\ reads' = f.reads
    /\ treeReads' = f.treeReads

NoFrame ==
    /\ hostname = <<>>
    /\ drop_unknown = 0
    /\ cursor = <<>>
    /\ seg_start = 0
    /\ seg_end = 0
    /\ subtree = 0
    /\ ret = NOMATCH
    /\ reads = {}
    /\ treeReads = 0

Init ==
    /\ tldString \in TldStrings
    /\ tree = NULL
    /\ heap = {}
    /\ released = EmptyBag
    /\ pc = "start"
    /\ endpos = 0
    /\ api = "none"
    /\ root = "none"
    /\ NoFrame

\* void *loadTldTree(void)
loadTldTree ==
    /\ pc = "start"
    /\ LET r == readTldString(tldString, Len(tldString), 0)
       IN  /\ tree' = r.node
           /\ endpos' = r.pos
           /\ heap' = AllBlocks(r.node)
    /\ pc' = "idle"
    /\ api' = "loadTldTree"
    /\ UNCHANGED <<tldString, released, hostname, drop_unknown, cursor, seg_start,
                   seg_end, subtree, ret, reads, treeReads, root>>

\* char *getRegisteredDomainDrop(hostname, tree, drop_unknown): lines 197-209.
getRegisteredDomainDrop ==
    /\ pc = "idle"
    /\ \E h \in Hostnames, d \in DropValues : SetFrame(Defined(EnterFrame(h, d)))
    /\ api' = "getRegisteredDomainDrop"
    /\ UNCHANGED <<tldString, tree, heap, released, endpos, root>>

\* char *getRegisteredDomain(hostname, tree): lines 197-209 with drop_unknown 0.
getRegisteredDomain ==
    /\ pc = "idle"
    /\ \E h \in Hostnames : SetFrame(Defined(EnterFrame(h, 0)))
    /\ api' = "getRegisteredDomain"
    /\ UNCHANGED <<tldString, tree, heap, released, endpos, root>>

\* One pass of the for loop, lines 211-236.
LoopStep ==
    /\ pc = "scan"
    /\ SetFrame(Defined(LoopFrame(Frame, tree)))
    /\ UNCHANGED <<tldString, tree, heap, released, endpos, api, root>>

\* Lines 239-254.
CheckStep ==
    /\ pc = "check"
    /\ SetFrame(Defined(CheckFrame(Frame)))
    /\ UNCHANGED <<tldString, tree, heap, released, endpos, api, root>>

\* The caller takes the returned pointer; the frame of the call is gone.
Return ==
    /\ pc = "done"
    /\ SetFrame([pc |-> "idle", hostname |-> <<>>, drop_unknown |-> 0,
                 cursor |-> <<>>, seg_start |-> 0, seg_end |-> 0, subtree |-> 0,
                 ret |-> NOMATCH, reads |-> {}, treeReads |-> 0])
    /\ UNCHANGED <<tldString, tree, heap, released, endpos, api, root>>

\* void freeTldTree(void *root), given the tree built by loadTldTree.
freeTldTreeBuilt ==
    /\ pc = "idle"
    /\ root' = "tree"
    /\ released' = released (+) freeTldTreeI(tree, <<>>)
    /\ heap' = heap \ BagToSet(released')
    /\ pc' = "freed"
    /\ api' = "freeTldTree"
    /\ UNCHANGED <<tldString, tree, hostname, drop_unknown, cursor, seg_start,
                   seg_end, subtree, ret, reads, treeReads, endpos>>

\* void freeTldTree(void *root), given NULL: freeTldTreeI reads
\* node->num_children through the null pointer (line 159), which has no defined
\* behaviour: the process is killed, or the call goes on with whatever it read
\* (a count and a child array that are not the tree's).
freeTldTreeNull ==
    /\ pc \in {"start", "idle", "freed"}
    /\ root' = NULL
    /\ treeReads' = treeReads + 1
    /\ \E outcome \in {"crashed", "corrupt"} : pc' = outcome
    /\ \E garbage \in {EmptyBag, SetToBag({<<<<0>>, "subnodes">>})} :
          released' = released (+) garbage
    /\ api' = "freeTldTree"
    /\ UNCHANGED <<tldString, tree, heap, hostname, drop_unknown, cursor, seg_start,
                   seg_end, subtree, ret, reads, endpos>>

freeTldTree == freeTldTreeBuilt \/ freeTldTreeNull

Next ==
    \/ loadTldTree
    \/ getRegisteredDomainDrop
    \/ getRegisteredDomain
    \/ LoopStep
    \/ CheckStep
    \/ Return
    \/ freeTldTree

Spec == Init /\ [][Next]_vars

----------------------------------------------------------------------------
(* findTldNode on its own: every order of a parent's children *)

\* Texts of leaf children; "!" gives the child with the empty label.
FindLabels == { <<"a">>, <<"b">>, <<"*">>, <<"a", "b">>, <<"!">> }

\* Parents with up to MaxChildren leaf children, in every order.
ParentTexts == { Block(<<"r">>, kids) : kids \in SeqsOf(FindLabels, 1, MaxChildren) }

\* Host names whose single label, or whose label before a trailing dot, is
\* looked up.
FindHosts == SeqsOf({ "a", "b", "*" }, 0, 2) \cup { <<"a", ".">>, <<"a", "b", ".">> }

InitFind ==
    /\ tldString \in ParentTexts
    /\ tree = loadTldTreeRoot(tldString)
    /\ heap = AllBlocks(tree)
    /\ released = EmptyBag
    /\ pc = "find"
    /\ endpos = 0
    /\ api = "findTldNode"
    /\ root = "none"
    /\ hostname \in FindHosts
    /\ seg_end = TrimmedEnd(hostname)
    /\ seg_start \in {0, seg_end, Len(hostname)}
    /\ drop_unknown = 0
    /\ cursor = <<>>
    /\ subtree = 0
    /\ ret = NOMATCH
    /\ reads = {}
    /\ treeReads = 0

\* tldnode *subtree = findTldNode(tree, seg_start, seg_end);
FindCall ==
    /\ pc = "find"
    /\ subtree' = findTldNode(tree, hostname, seg_start, seg_end)
    /\ treeReads' = treeReads + 1
    /\ pc' = "found"
    /\ UNCHANGED <<tldString, tree, heap, released, hostname, drop_unknown, cursor,
                   seg_start, seg_end, ret, reads, endpos, api, root>>

NextFind == FindCall

SpecFind == InitFind /\ [][NextFind]_vars

----------------------------------------------------------------------------
(* readTldString on its own: one node text, with and without the marker *)

\* What may follow a label run: the ',' or ')' that closes a leaf, or a block
\* of children.
NodeTails ==
    { <<",">>, <<")">>,
      Block(<<>>, << <<"a">> >>),
      Block(<<>>, << <<"!">> >>),
      Block(<<>>, << <<"!", "b">>, <<"a">> >>) }

LabelRuns == SeqsOf({ "a", "b" }, 0, MaxLabelLen)

NodeTexts ==
    { mark \o run \o tail : mark \in { <<>>, <<"!">> }, run \in LabelRuns,
                            tail \in NodeTails }

InitRead ==
    /\ tldString \in NodeTexts
    /\ tree = NULL
    /\ heap = {}
    /\ released = EmptyBag
    /\ pc = "read"
    /\ endpos = 0
    /\ api = "readTldString"
    /\ root = "none"
    /\ NoFrame

\* pos = readTldString(node, s, len, 0);
ReadCall ==
    /\ pc = "read"
    /\ LET r == readTldString(tldString, Len(tldString), 0)
       IN  /\ tree' = r.node
           /\ endpos' = r.pos
           /\ heap' = AllBlocks(r.node)
    /\ pc' = "parsed"
    /\ UNCHANGED <<tldString, released, hostname, drop_unknown, cursor, seg_start,
                   seg_end, subtree, ret, reads, treeReads, api, root>>

NextRead == ReadCall

SpecRead == InitRead /\ [][NextRead]_vars

----------------------------------------------------------------------------
(* What the claims speak of, stated without the code's walk *)

\* A call of the resolver is running or has just ended.
InCall == pc \in {"scan", "check", "done", "abort", "undefined"}

\* The end of the name with a single trailing dot left out.
NameEnd(h) == IF Len(h) > 0 /\ h[Len(h)] = "." THEN Len(h) - 1 ELSE Len(h)

\* Non-empty labels and no trailing dot.
PlainName(h) ==
    /\ Len(h) > 0
    /\ h[1] # "."
    /\ h[Len(h)] # "."
    /\ \A i \in 1..(Len(h) - 1) : ~(h[i] = "." /\ h[i + 1] = ".")

\* The offsets at which the labels of a plain name start.
LabelStarts(h) == {0} \cup { i \in 1..(Len(h) - 1) : h[i] = "." }

NumLabels(h) == Cardinality(LabelStarts(h))

\* The offset at which the j-th label from the right starts (j = 1: the last).
StartFromRight(h, j) ==
    CHOOSE p \in LabelStarts(h) : Cardinality({ q \in LabelStarts(h) : q >= p }) = j

\* The j-th label from the right.
LabelFromRight(h, j) ==
    LET p == StartFromRight(h, j)
        e == IF j = 1 THEN Len(h) ELSE StartFromRight(h, j - 1) - 1
    IN  [k \in 1..(e - p) |-> h[p + k]]

Least(S) == CHOOSE x \in S : \A y \in S : x <= y

\* The child a label matches: the first child of that very label, else the
\* first child labelled '*', else none (0).
MatchedChild(node, label) ==
    LET exact == { i \in 1..Len(node.subnodes) : node.subnodes[i].dom = label }
        wild  == { i \in 1..Len(node.subnodes) : node.subnodes[i].dom = <<"*">> }
    IN  IF exact # {} THEN Least(exact)
        ELSE IF wild # {} THEN Least(wild) ELSE 0

\* An exception boundary: exactly one child, flagged as an exception.
Boundary(node) == Len(node.subnodes) = 1 /\ node.subnodes[1].attr = "THIS"

\* The labels of a plain name matched right to left from node, the j-th label
\* from the right being next: how many labels matched (k) and why it stopped.
RECURSIVE SuffixWalk(_, _, _)
SuffixWalk(node, h, j) ==
    LET c == MatchedChild(node, LabelFromRight(h, j)) IN
    IF c = 0 THEN [k |-> j - 1, why |-> "unmatched"]
    ELSE IF Boundary(node.subnodes[c]) THEN [k |-> j, why |-> "exception"]
    ELSE IF j = NumLabels(h) THEN [k |-> j, why |-> "consumed"]
    ELSE SuffixWalk(node.subnodes[c], h, j + 1)

----------------------------------------------------------------------------
(* The claims *)

\* C1: for a name h that is non-empty and neither starts nor ends with '.',
\* the call on h + "." returns what the call on h returns with the same tree
\* and drop_unknown: noMatch for both, or the same offset.
C1_TrailingDotSameOutcome ==
    (/\ pc = "done"
     /\ Len(hostname) >= 2
     /\ hostname[Len(hostname)] = "."
     /\ hostname[Len(hostname) - 1] # "."
     /\ hostname[1] # ".")
    => ret = getRegisteredDomainDropI(SubSeq(hostname, 1, Len(hostname) - 1),
                                      tree, drop_unknown).ret

\* C2: every result other than noMatch has two labels at least: between the
\* returned offset and the end of the name, a single trailing dot left out,
\* there is a '.'.
C2_TwoLabelMinimum ==
    (pc = "done" /\ ret # NOMATCH)
    => \E i \in ret..(NameEnd(hostname) - 1) : CharAt(hostname, i) = "."

\* C3: findTldNode returns a child whose label is the query label whenever
\* there is one, wherever the wildcard child stands; with no such child it
\* returns the first child labelled '*'; with neither it returns null.
C3_ExactBeforeWildcard ==
    (pc = "found" /\ seg_start <= seg_end)
    => LET q     == CopyOf(hostname, seg_start, seg_end - seg_start)
           kids  == tree.subnodes
           exact == { i \in 1..Len(kids) : kids[i].dom = q }
           wild  == { i \in 1..Len(kids) : kids[i].dom = <<"*">> }
       IN  /\ exact # {} => subtree \in exact
           /\ (exact = {} /\ wild # {}) => subtree = Least(wild)
           /\ (exact = {} /\ wild = {}) => subtree = 0

\* C3 witness: the wildcard child stands before the child of the query label,
\* and the latter is returned.
C3_WildcardStandsFirst ==
    /\ pc = "found"
    /\ seg_start = 0
    /\ seg_end = Len(hostname)
    /\ hostname # <<"*">>
    /\ subtree > 1
    /\ tree.subnodes[subtree].dom = hostname
    /\ \E i \in 1..(subtree - 1) : tree.subnodes[i].dom = <<"*">>

\* C4: for a plain name whose k >= 1 rightmost labels match along a path from
\* the root with no exception boundary on it, the result is the same for both
\* drop_unknown values: the last k + 1 labels when the (k+1)-th label matches
\* no child of the last node of the path, noMatch when the name has k labels.
C4_SuffixPathResult ==
    (pc = "done" /\ PlainName(hostname))
    => LET w == SuffixWalk(tree, hostname, 1) IN
       /\ w.why = "consumed" => ret = NOMATCH
       /\ (w.why = "unmatched" /\ w.k >= 1)
             => ret = StartFromRight(hostname, w.k + 1)
       /\ (w.why \in {"consumed", "unmatched"} /\ w.k >= 1)
             => getRegisteredDomainDropI(hostname, tree, 1 - drop_unknown).ret = ret

\* C4 witness: two labels matched, the third matches nothing, drop_unknown set.
C4_TwoLevelSuffixReached ==
    /\ pc = "done"
    /\ PlainName(hostname)
    /\ drop_unknown = 1
    /\ SuffixWalk(tree, hostname, 1) = [k |-> 2, why |-> "unmatched"]
    /\ ret = 0

\* C5: for a plain name whose last label matches no child of the root, the
\* result is noMatch with drop_unknown set; with drop_unknown clear (and
\* through getRegisteredDomain) it is the last two labels, found with no
\* further tree lookup, or noMatch for a name of one label.
C5_UnknownLastLabel ==
    (/\ pc = "done"
     /\ PlainName(hostname)
     /\ MatchedChild(tree, LabelFromRight(hostname, 1)) = 0)
    => /\ treeReads = 1
       /\ IF api = "getRegisteredDomainDrop" /\ drop_unknown # 0
          THEN ret = NOMATCH
          ELSE IF NumLabels(hostname) >= 2
               THEN ret = StartFromRight(hostname, 2)
               ELSE ret = NOMATCH

\* C5 witness: getRegisteredDomain on a name of three labels with an unknown
\* last label.
C5_UnknownTldKept ==
    /\ pc = "done"
    /\ api = "getRegisteredDomain"
    /\ PlainName(hostname)
    /\ NumLabels(hostname) = 3
    /\ MatchedChild(tree, LabelFromRight(hostname, 1)) = 0
    /\ ret = StartFromRight(hostname, 2)

\* C6: when the walk has matched a label e that is not the last label of the
\* name and the node matched for e is an exception boundary, the call returns
\* the offset at which e starts, for both drop_unknown values.
C6_ExceptionStopsAtLabel ==
    (/\ pc = "done"
     /\ subtree # 0
     /\ Boundary(NodeAt(tree, Append(cursor, subtree)))
     /\ seg_end < NameEnd(hostname))
    => /\ ret # NOMATCH
       /\ ret <= seg_end
       /\ ret = 0 \/ CharAt(hostname, ret - 1) = "."
       /\ \A i \in ret..(seg_end - 1) : CharAt(hostname, i) # "."

\* C6 witness: the walk stopped at an exception boundary with a label left
\* over to the left of e, drop_unknown set.
C6_ExceptionWithLabelsLeft ==
    /\ pc = "done"
    /\ subtree # 0
    /\ Boundary(NodeAt(tree, Append(cursor, subtree)))
    /\ seg_end < NameEnd(hostname)
    /\ drop_unknown = 1
    /\ ret > 0

\* C7: a name that is empty or starts with '.' gives noMatch as an ordinary
\* return, with no read of the tree and no read outside the name.
C7_AlwaysFailNames ==
    (InCall /\ (hostname = <<>> \/ hostname[1] = "."))
    => /\ pc = "done"
       /\ ret = NOMATCH
       /\ treeReads = 0
       /\ reads \subseteq 0..Len(hostname)

\* C7 witness: a call on the empty name has returned.
C7_EmptyNameReturned ==
    /\ pc = "done"
    /\ api = "getRegisteredDomainDrop"
    /\ hostname = <<>>
    /\ ret = NOMATCH

\* C8: freeTldTree on a null tree reads no field of it and releases nothing;
\* on a built tree it releases every block of the tree exactly once.
C8_FreeNullIsNoOp ==
    /\ (api = "freeTldTree" /\ root = NULL)
          => /\ treeReads = 0
             /\ pc \notin {"crashed", "corrupt"}
             /\ BagToSet(released) \subseteq AllBlocks(tree)
    /\ (api = "freeTldTree" /\ root = "tree")
          => /\ released = SetToBag(AllBlocks(tree))
             /\ heap = {}

\* C9: a node text "!" L closed by ',', '(' or ')' gives a node flagged as an
\* exception whose label is exactly L; a text without the marker gives an
\* unflagged node whose label is the whole run.
C9_MarkerStripped ==
    pc = "parsed"
    => LET stop == Least({ i \in 1..Len(tldString) : tldString[i] \in {",", "(", ")"} })
           run  == SubSeq(tldString, 1, stop - 1)
       IN  IF run # <<>> /\ run[1] = "!"
           THEN tree.attr = THIS /\ tree.dom = Tail(run)
           ELSE tree.attr = NULL /\ tree.dom = run

\* C10: the abort() of the loop is never reached: when the loop has moved on
\* to the next label the character before the label it left is '.', and a
\* call ends with noMatch or an offset inside the name.
C10_AbortNeverReached ==
    /\ pc \notin {"abort", "undefined"}
    /\ (pc = "scan" /\ treeReads > 0) => CharAt(hostname, seg_end) = "."
    /\ pc = "done" => (ret = NOMATCH \/ ret \in 0..(Len(hostname) - 1))

\* C10 witness: the loop has moved on to a third label.
C10_MovedOnTwice ==
    /\ pc = "scan"
    /\ treeReads = 2
    /\ CharAt(hostname, seg_end) = "."

====
